---- MODULE Spec2Model ----
(***************************************************************************)
(* Beta-t-EGARCH in-mean regression model (pyflux/garch/egarchmreg.py).    *)
(*                                                                         *)
(* The model object is the record `self'; array cells are symbolic terms   *)
(* that record which parameter slots, covariate rows and array indices the *)
(* code reads to compute them, so that every positional address of the     *)
(* source (parm[-2k], X[t], lmda[t-1], ...) is resolved as Python does.    *)
(* Python indices are 0-based; sequences here are 1-based, At(s, i) reads  *)
(* Python's s[i].                                                          *)
(***************************************************************************)
EXTENDS Integers, Sequences, FiniteSets, TLC

VARIABLES self, f, ret, rng

vars == <<self, f, ret, rng>>

\* ---------------------------------------------------------------- bounds
MaxP == 2
MaxQ == 2
MaxK == 2
MaxN == 4
MaxH == 2
MaxSims == 2
RngMod == 3
MaxDf == 3
MaxLmda == 2
MaxAbs == 2
ExpTerms == 4

\* ------------------------------------------------------ Python indexing
\* s[i] for a Python index i (negative counts from the end)
PyIdx(n, i) == IF i < 0 THEN n + i ELSE i

InRange(n, i) == PyIdx(n, i) >= 0 /\ PyIdx(n, i) < n

At(s, i) == s[PyIdx(Len(s), i) + 1]

Clamp(n, i) == IF PyIdx(n, i) < 0 THEN 0 ELSE IF PyIdx(n, i) > n THEN n ELSE PyIdx(n, i)

\* the resolved (0-based) indices addressed by the slice [a:b] of a length-n array
PySlice(n, a, b) == [j \in 1..(IF Clamp(n, b) > Clamp(n, a) THEN Clamp(n, b) - Clamp(n, a) ELSE 0) |-> Clamp(n, a) + j - 1]

\* range(a, b) as a sequence
Range(a, b) == [j \in 1..(IF b > a THEN b - a ELSE 0) |-> a + j - 1]

Max(a, b) == IF a >= b THEN a ELSE b

\* list.pop(): the list without its last entry
Pop(s) == SubSeq(s, 1, Len(s) - 1)

\* --------------------------------------------------- latent variables
\* latent_variables.add_z(name, prior, q): appends one latent variable
add_z(z_list, name, i, transform) == Append(z_list, [name |-> name, i |-> i, tr |-> transform])

RECURSIVE AddTerms(_, _, _, _, _)
\* for j in range(from, n): add_z(name + str(j+1), transform)
AddTerms(z_list, name, transform, from, n) ==
    IF from >= n THEN z_list
    ELSE AddTerms(add_z(z_list, name, from + 1, transform), name, transform, from + 1, n)

_create_latent_variables(p, q, k) ==
    LET zp == AddTerms(<<>>, "p", "logit", 0, p)
        zq == AddTerms(zp, "q", "logit", 0, q)
        zv == add_z(zq, "v", 0, "exp")
        zg == add_z(zv, "GARCH-M", 0, "None")
        zvol == AddTerms(zg, "Vol Beta", "None", 0, k)
    IN  AddTerms(zvol, "Returns Beta", "None", 0, k)

\* EGARCHMReg(data, p, q, formula) on n rows of data whose formula yields k columns
__init__(p, q, k, n) ==
    [ p |-> p, q |-> q, k |-> k, N |-> n,
      max_lag |-> Max(p, q),
      z_no |-> p + q + 2 + k * 2,
      leverage |-> FALSE,
      latent_variables |-> [ z_list |-> _create_latent_variables(p, q, k),
                             estimated |-> FALSE,
                             fit_rows |-> 0 ] ]

\* add_leverage without the test of the flag: every call adds the terms again
add_leverage_unguarded(s) ==
    [s EXCEPT !.leverage = TRUE,
              !.z_no = s.z_no + 1,
              !.latent_variables.z_list =
                        add_z(add_z(add_z(add_z(Pop(Pop(Pop(s.latent_variables.z_list))),
                             "Leverage Term", 0, "None"),
                             "v", 0, "exp"),
                             "Returns Constant", 0, "None"),
                             "GARCH-M", 0, "None")]

add_leverage(s) ==
    IF s.leverage THEN s
    ELSE [s EXCEPT !.leverage = TRUE,
                   !.z_no = s.z_no + 1,
                   !.latent_variables.z_list =
                             add_z(add_z(add_z(add_z(Pop(Pop(Pop(s.latent_variables.z_list))),
                                  "Leverage Term", 0, "None"),
                                  "v", 0, "exp"),
                                  "Returns Constant", 0, "None"),
                                  "GARCH-M", 0, "None")]

\* tsm.TSM.fit: estimates the latent variables of the model it is called on, from
\* the rows of data the model holds
fit(s) == [s EXCEPT !.latent_variables.estimated = TRUE, !.latent_variables.fit_rows = s.N]

\* ------------------------------------------------------------ the filter
Zero == [k |-> "zero"]

Zeros(n) == [j \in 1..n |-> Zero]

\* arr[i] = v for a Python index i
Put(arr, i, v) == [arr EXCEPT ![PyIdx(Len(arr), i) + 1] = v]

\* a read of arr[at]: the index as written in the source and the cell found there
Rd(arr, at) == [at |-> at, ix |-> PyIdx(Len(arr), at), rd |-> At(arr, at).k]

\* parm[k] = z_list[k].prior.transform(beta[k]) for k in range(beta.shape[0])
Transform(z_list, nbeta) == [j \in 1..nbeta |-> [tr |-> z_list[j].tr, b |-> j - 1]]

\* Y = data[0:data.shape[0]]: the lag prefix is not dropped
Observations_untruncated(s) == [j \in 1..s.N |-> [k |-> "obs", row |-> j - 1]]

\* Y = data[max_lag:data.shape[0]]: the observations, each named by its row
Observations(s) == [j \in 1..(IF s.N > s.max_lag THEN s.N - s.max_lag ELSE 0) |-> [k |-> "obs", row |-> s.max_lag + j - 1]]

\* self.X[t]: the row of the covariate matrix the filter reads at step t
XRow(s, t) == t

\* lmda[t] = parm[-2k]/(1 - sum(parm[:p]))
InitLmda(s, n) == [k |-> "init", num |-> PyIdx(n, -(s.k * 2)), den |-> PySlice(n, 0, s.p)]

\* theta[t] = dot(X[t], parm[-k:])
InitTheta(s, n, t) == [k |-> "dot", x |-> XRow(s, t), coef |-> PySlice(n, -s.k, n)]

\* the GARCH, score, leverage and regression terms added to lmda[t]
RecLmda(s, n, t, st) ==
    [ k |-> "rec",
      garch |-> [j \in 1..s.p |-> [c |-> j - 1] @@ Rd(st.lmda, t - (j - 1) - 1)],
      score |-> [j \in 1..s.q |-> [c |-> s.p + j - 1] @@ Rd(st.scores, t - (j - 1) - 1)],
      lev |-> IF s.leverage
              THEN << [c |-> PyIdx(n, -(s.k * 2) - 3),
                       y |-> t - 1, theta |-> Rd(st.theta, t - 1), score |-> Rd(st.scores, t - 1)] >>
              ELSE << >>,
      x |-> XRow(s, t),
      vol |-> PySlice(n, -(s.k * 2), -s.k) ]

\* theta[t] = dot(X[t], parm[-k:]) + parm[-2k-1]*exp(lmda[t]/2)
RecTheta(s, n, t) ==
    [k |-> "dotgim", x |-> XRow(s, t), coef |-> PySlice(n, -s.k, n), gim |-> PyIdx(n, -(s.k * 2) - 1), lm |-> t]

\* scores[t] from parm[p+q], Y[t], theta[t], lmda[t]
ScoreCell(s, t) == [k |-> "score", df |-> s.p + s.q, y |-> t, theta |-> t, lm |-> t]

FilterStep(s, n, t, st) ==
    LET l1 == IF t < s.max_lag
              THEN [st EXCEPT !.lmda = Put(st.lmda, t, InitLmda(s, n)),
                              !.theta = Put(st.theta, t, InitTheta(s, n, t))]
              ELSE [st EXCEPT !.lmda = Put(st.lmda, t, RecLmda(s, n, t, st)),
                              !.theta = Put(st.theta, t, RecTheta(s, n, t))]
    IN  [l1 EXCEPT !.scores = Put(st.scores, t, ScoreCell(s, t))]

RECURSIVE FilterLoop(_, _, _, _)
\* for t in range(0, Y.shape[0])
FilterLoop(s, n, t, st) ==
    IF t >= Len(st.Y) THEN st ELSE FilterLoop(s, n, t + 1, FilterStep(s, n, t, st))

\* the arrays before the loop: scores, lmda and theta are np.zeros(Y.shape[0])
FilterStart(Y) == [Y |-> Y, lmda |-> Zeros(Len(Y)), theta |-> Zeros(Len(Y)), scores |-> Zeros(Len(Y))]

\* return lmda, Y, scores, theta (with the transformed parameters the loop used)
FilterReturn(parm, st) ==
    [status |-> "ok", parm |-> parm, lmda |-> st.lmda, Y |-> st.Y, scores |-> st.scores, theta |-> st.theta]

\* _model(beta) with beta of length nbeta
_model(s, nbeta) ==
    IF nbeta > Len(s.latent_variables.z_list) THEN [status |-> "IndexError"]
    ELSE FilterReturn(Transform(s.latent_variables.z_list, nbeta),
                      FilterLoop(s, nbeta, 0, FilterStart(Observations(s))))

\* the Student-t density's arguments: Y, loc = theta, scale from lmda, and
\* df = z_list[-2k-2].prior.transform(beta[-2k-2])
LogPdfArgs(s, nbeta, m) ==
    IF m.status # "ok" THEN m
    ELSE [status |-> "ok", lmda |-> m.lmda, Y |-> m.Y, theta |-> m.theta, scores |-> m.scores,
          df |-> [tr |-> At(s.latent_variables.z_list, -(s.k * 2) - 2).tr, b |-> PyIdx(nbeta, -(s.k * 2) - 2)]]

\* neg_loglik(beta): the filter's output and the df handed to the Student-t density
neg_loglik(s, nbeta) == LogPdfArgs(s, nbeta, _model(s, nbeta))

\* ------------------------------------------------------- the forecasts
\* every index in reads (Python indices) addresses an entry of a length-n array
AllInRange(n, reads) == \A j \in 1..Len(reads) : InRange(n, reads[j])

\* new_lambda_value of one forecast step: the GARCH and score terms read from
\* the extended arrays, the leverage term lev and row t of X_oos
NewLambda(s, nparm, c, t, lev) ==
    [ k |-> "new",
      garch |-> [j \in 1..s.p |-> [c |-> j - 1] @@ Rd(c.lmda_exp, -(j - 1) - 1)],
      score |-> [j \in 1..s.q |-> [c |-> (j - 1) + s.p] @@ Rd(c.scores_exp, -(j - 1) - 1)],
      lev |-> lev,
      xoos |-> t,
      vol |-> PySlice(nparm, -(s.k * 2), -s.k) ]

\* new_theta_value = dot(X_oos[t], t_params[-k:]) + t_params[-2k-1]*exp(new_lambda_value/2)
NewTheta(s, nparm, t) ==
    [k |-> "newtheta", xoos |-> t, coef |-> PySlice(nparm, -s.k, nparm), gim |-> PyIdx(nparm, -(s.k * 2) - 1)]

\* the lags a forecast step reads exist in the extended arrays, and X_oos has row t
StepReadsOk(s, c, t, noos) ==
    /\ AllInRange(Len(c.lmda_exp), [j \in 1..s.p |-> -(j - 1) - 1])
    /\ AllInRange(Len(c.scores_exp), [j \in 1..s.q |-> -(j - 1) - 1])
    /\ t < noos

\* a step that writes the new lambda over the last entry instead of appending it
MeanStep_overwrite(s, nparm, c, t, noos) ==
    IF ~StepReadsOk(s, c, t, noos) \/ Len(c.lmda_exp) = 0 THEN [c EXCEPT !.status = "IndexError"]
    ELSE [c EXCEPT !.lmda_exp = Put(c.lmda_exp, -1, NewLambda(s, nparm, c, t, << >>)),
                   !.scores_exp = Append(c.scores_exp, Zero),
                   !.Y_exp = Append(c.Y_exp, NewTheta(s, nparm, t))]

MeanStep(s, nparm, c, t, noos) ==
    IF ~StepReadsOk(s, c, t, noos) THEN [c EXCEPT !.status = "IndexError"]
    ELSE [c EXCEPT !.lmda_exp = Append(c.lmda_exp, NewLambda(s, nparm, c, t, << >>)),
                   !.scores_exp = Append(c.scores_exp, Zero),
                   !.Y_exp = Append(c.Y_exp, NewTheta(s, nparm, t))]

RECURSIVE MeanLoop(_, _, _, _, _, _)
\* for t in range(0, h)
MeanLoop(s, nparm, c, t, h, noos) ==
    IF t >= h \/ c.status # "ok" THEN c
    ELSE MeanLoop(s, nparm, MeanStep(s, nparm, c, t, noos), t + 1, h, noos)

\* lmda_exp = lmda.copy(), scores_exp = scores.copy(), Y_exp = Y.copy()
Copies(lmda, Y, scores) == [status |-> "ok", lmda_exp |-> lmda, scores_exp |-> scores, Y_exp |-> Y]

\* return lmda_exp, or the error raised
MeanReturn(c, lmda, Y, scores) ==
    IF c.status # "ok"
    THEN [status |-> c.status, lmda |-> lmda, Y |-> Y, scores |-> scores]
    ELSE [status |-> "ok", path |-> c.lmda_exp, scores_exp |-> c.scores_exp, Y_exp |-> c.Y_exp,
          lmda |-> lmda, Y |-> Y, scores |-> scores]

\* _mean_prediction(lmda, Y, scores, h, t_params, X_oos): the value returned (path)
\* and the caller's three arrays as the call leaves them
_mean_prediction(s, lmda, Y, scores, h, nparm, noos) ==
    MeanReturn(MeanLoop(s, nparm, Copies(lmda, Y, scores), 0, h, noos), lmda, Y, scores)

\* np.random.randint(n) on the generator state r: the value drawn, and the next state
RandInt(r, n) == r % n

NextRng(r) == (r + 1) % RngMod

\* new_theta_value before any step has assigned it
Unbound == [bound |-> FALSE]

\* the leverage term of a simulated step: t_params[p+q], Y_exp[-1], the local
\* new_theta_value as it stands, scores_exp[-1]
SimLeverage(s, c) ==
    << [c |-> s.p + s.q, y |-> Rd(c.Y_exp, -1), theta |-> c.new_theta_value, score |-> Rd(c.scores_exp, -1)] >>

\* what reading the leverage term raises, if anything
SimLeverageError(s, c) ==
    IF ~s.leverage THEN "ok"
    ELSE IF Len(c.Y_exp) = 0 THEN "IndexError"
    ELSE IF ~c.new_theta_value.bound THEN "UnboundLocalError"
    ELSE IF Len(c.scores_exp) = 0 THEN "IndexError"
    ELSE "ok"

\* one step t of path n
SimStep(s, nparm, c, n, t, noos, scores, Y) ==
    IF ~(AllInRange(Len(c.lmda_exp), [j \in 1..s.p |-> -(j - 1) - 1])
         /\ AllInRange(Len(c.scores_exp), [j \in 1..s.q |-> -(j - 1) - 1]))
    THEN [c EXCEPT !.status = "IndexError"]
    ELSE IF SimLeverageError(s, c) # "ok" THEN [c EXCEPT !.status = SimLeverageError(s, c)]
    ELSE IF t >= noos THEN [c EXCEPT !.status = "IndexError"]
    ELSE IF Len(scores) = 0 \/ Len(Y) = 0 THEN [c EXCEPT !.status = "ValueError"]
    ELSE [c EXCEPT !.lmda_exp = Append(c.lmda_exp,
                                  NewLambda(s, nparm, c, t, IF s.leverage THEN SimLeverage(s, c) ELSE << >>)),
                   !.new_theta_value = [bound |-> TRUE, path |-> n, step |-> t],
                   !.scores_exp = Append(c.scores_exp, At(scores, RandInt(c.rng, Len(scores)))),
                   !.Y_exp = Append(c.Y_exp, At(Y, RandInt(NextRng(c.rng), Len(Y)))),
                   !.rng = NextRng(NextRng(c.rng))]

RECURSIVE SimPath(_, _, _, _, _, _, _, _, _)
\* for t in range(0, h)
SimPath(s, nparm, c, n, t, h, noos, scores, Y) ==
    IF t >= h \/ c.status # "ok" THEN c
    ELSE SimPath(s, nparm, SimStep(s, nparm, c, n, t, noos, scores, Y), n, t + 1, h, noos, scores, Y)

\* sim_vector[n] = lmda_exp[-h:]
SimStore(d, h) ==
    IF d.status # "ok" THEN d
    ELSE [d EXCEPT !.sim_vector = Append(d.sim_vector, SubSeq(d.lmda_exp, Len(d.lmda_exp) - h + 1, Len(d.lmda_exp)))]

RECURSIVE SimLoop(_, _, _, _, _, _, _, _, _, _)
\* for n in range(0, simulations): fresh copies of the arrays, then sim_vector[n] = lmda_exp[-h:]
SimLoop(s, nparm, c, n, simulations, h, noos, lmda, scores, Y) ==
    IF n >= simulations \/ c.status # "ok" THEN c
    ELSE SimLoop(s, nparm,
                 SimStore(SimPath(s, nparm, [c EXCEPT !.lmda_exp = lmda, !.scores_exp = scores, !.Y_exp = Y],
                                  n, 0, h, noos, scores, Y), h),
                 n + 1, simulations, h, noos, lmda, scores, Y)

\* np.transpose of a simulations x h matrix
Transpose(m, h) == [t \in 1..h |-> [n \in 1..Len(m) |-> m[n][t]]]

\* return np.transpose(sim_vector), or the error raised
SimReturn(c, h) ==
    IF c.status # "ok" THEN [status |-> c.status, rng |-> c.rng]
    ELSE [status |-> "ok", matrix |-> Transpose(c.sim_vector, h), rng |-> c.rng]

\* _sim_prediction(lmda, Y, scores, h, t_params, simulations, X_oos), h >= 1
_sim_prediction(s, lmda, Y, scores, h, nparm, simulations, noos, r) ==
    SimReturn(SimLoop(s, nparm,
                      [status |-> "ok", sim_vector |-> << >>, new_theta_value |-> Unbound, rng |-> r,
                       lmda_exp |-> << >>, scores_exp |-> << >>, Y_exp |-> << >>],
                      0, simulations, h, noos, lmda, scores, Y), h)

\* ------------------------------------------------- the reporting methods
NotEstimated(op) == [op |-> op, status |-> "Exception", calls |-> << >>]

Raised(op, status, calls) == [op |-> op, status |-> status, calls |-> calls]

\* result = pd.DataFrame(np.exp(mean_values[-h:]/2.0)), indexed by date_index[-h:]
PredictReturn(s, h, mean_values) ==
    IF mean_values.status # "ok"
    THEN Raised("predict", mean_values.status,
                <<"dmatrices", "_model", "shift_dates", "transform_z", "_mean_prediction">>)
    ELSE [op |-> "predict", status |-> "ok",
          calls |-> <<"dmatrices", "_model", "shift_dates", "transform_z", "_mean_prediction">>,
          fit_rows |-> s.latent_variables.fit_rows,
          result |-> SubSeq(mean_values.path, Len(mean_values.path) - h + 1, Len(mean_values.path)),
          index |-> Range(s.N, s.N + h)]

\* predict after the filter has run on latent_variables.get_z_values(), X_pred = X_oos[:h]
PredictForecast(s, h, rows, m) ==
    IF m.status # "ok" THEN Raised("predict", m.status, <<"dmatrices", "_model">>)
    ELSE PredictReturn(s, h, _mean_prediction(s, m.lmda, m.Y, m.scores, h,
                                              Len(s.latent_variables.z_list), Len(PySlice(rows, 0, h))))

\* predict without the test of latent_variables.estimated
predict_unguarded(s, h, rows) == PredictForecast(s, h, rows, _model(s, Len(s.latent_variables.z_list)))

\* predict(h, oos_data) with rows rows of out-of-sample data, h >= 1
predict(s, h, rows) ==
    IF ~s.latent_variables.estimated THEN NotEstimated("predict")
    ELSE PredictForecast(s, h, rows, _model(s, Len(s.latent_variables.z_list)))

\* plot_fit after the filter has run
PlotFitReturn(m) ==
    IF m.status # "ok" THEN Raised("plot_fit", m.status, <<"transform_z", "_model">>)
    ELSE Raised("plot_fit", "ok", <<"transform_z", "_model", "plot">>)

\* plot_fit()
plot_fit(s) ==
    IF ~s.latent_variables.estimated THEN NotEstimated("plot_fit")
    ELSE PlotFitReturn(_model(s, Len(s.latent_variables.z_list)))

\* plot_predict after the simulation: the bands are summarized and plotted
PlotPredictReturn(sim_values) ==
    IF sim_values.status # "ok"
    THEN Raised("plot_predict", sim_values.status,
                <<"dmatrices", "_model", "shift_dates", "transform_z", "_mean_prediction", "_sim_prediction">>)
         @@ [rng |-> sim_values.rng]
    ELSE Raised("plot_predict", "ok",
                <<"dmatrices", "_model", "shift_dates", "transform_z", "_mean_prediction", "_sim_prediction",
                  "_summarize_simulations", "plot">>)
         @@ [rng |-> sim_values.rng]

\* plot_predict after the deterministic forecast
PlotPredictSimulate(s, h, noos, m, sims, r, mean_values) ==
    IF mean_values.status # "ok"
    THEN Raised("plot_predict", mean_values.status,
                <<"dmatrices", "_model", "shift_dates", "transform_z", "_mean_prediction">>) @@ [rng |-> r]
    ELSE PlotPredictReturn(_sim_prediction(s, m.lmda, m.Y, m.scores, h,
                                           Len(s.latent_variables.z_list), sims, noos, r))

\* plot_predict after the filter has run, X_pred = X_oos[:h]
PlotPredictForecast(s, h, rows, sims, r, m) ==
    IF m.status # "ok" THEN Raised("plot_predict", m.status, <<"dmatrices", "_model">>) @@ [rng |-> r]
    ELSE PlotPredictSimulate(s, h, Len(PySlice(rows, 0, h)), m, sims, r,
                             _mean_prediction(s, m.lmda, m.Y, m.scores, h,
                                              Len(s.latent_variables.z_list), Len(PySlice(rows, 0, h))))

\* plot_predict(h, oos_data) with rows rows of out-of-sample data, h >= 1; the
\* 15000 simulated paths of the source are run as sims paths
plot_predict(s, h, rows, sims, r) ==
    IF ~s.latent_variables.estimated THEN NotEstimated("plot_predict") @@ [rng |-> r]
    ELSE PlotPredictForecast(s, h, rows, sims, r, _model(s, Len(s.latent_variables.z_list)))

\* ------------------------------------------------ the rolling predictor
\* x.fit(printer=False) when fit_once is False, and at t = 0 when it is True
FitInLoop(x, t, fit_once) == IF ~fit_once \/ t = 0 THEN fit(x) ELSE x

\* x.latent_variables = saved_lvs at t >= 1 when fit_once is True
UseSaved(x, c, t, fit_once) == IF fit_once /\ t >= 1 THEN [x EXCEPT !.latent_variables = c.saved_lvs] ELSE x

\* the number of calls of fit in iteration t
FitCalls(t, fit_once) == (IF ~fit_once THEN 1 ELSE 0) + (IF t = 0 /\ fit_once THEN 1 ELSE 0)

\* predictions = pd.concat([predictions, x.predict(h=1, oos_data=data2)])
Concat(c, t, rows, fit_once, lvs, pr) ==
    IF pr.status # "ok"
    THEN [c EXCEPT !.status = pr.status,
                   !.log = Append(c.log, [t |-> t, rows |-> rows, fits |-> FitCalls(t, fit_once),
                                          predict |-> pr.status])]
    ELSE [c EXCEPT !.log = Append(c.log, [t |-> t, rows |-> rows, fits |-> FitCalls(t, fit_once),
                                          predict |-> pr.status, fit_rows |-> pr.fit_rows]),
                   !.saved_lvs = IF t = 0 /\ fit_once THEN lvs ELSE c.saved_lvs,
                   !.predictions = c.predictions \o pr.result]

\* the forecast of the model x of iteration t from the data2 rows left out of it
PredictIsForecast(c, t, fit_once, x, data2) ==
    Concat(c, t, x.N, fit_once, x.latent_variables, predict(x, 1, data2))

\* an iteration that builds x on data1 = data_original.iloc[:-(h+t)]
PredictIsStep_data1(s, c, t, h, fit_once) ==
    PredictIsForecast(c, t, fit_once,
                      UseSaved(FitInLoop(__init__(s.p, s.q, s.k, Len(PySlice(s.N, 0, -(h + t)))), t, fit_once),
                               c, t, fit_once),
                      Len(PySlice(s.N, -h + t, s.N)))

\* one iteration t of predict_is: the model x built on data_original[:(-h+t)], its
\* fits, and its one-step forecast from the rows data_original.iloc[-h+t:]
PredictIsStep(s, c, t, h, fit_once) ==
    PredictIsForecast(c, t, fit_once,
                      UseSaved(FitInLoop(__init__(s.p, s.q, s.k, Len(PySlice(s.N, 0, -h + t))), t, fit_once),
                               c, t, fit_once),
                      Len(PySlice(s.N, -h + t, s.N)))

RECURSIVE PredictIsLoop(_, _, _, _, _)
\* for t in range(0, h)
PredictIsLoop(s, c, t, h, fit_once) ==
    IF t >= h \/ c.status # "ok" THEN c
    ELSE PredictIsLoop(s, PredictIsStep(s, c, t, h, fit_once), t + 1, h, fit_once)

\* predictions.index = self.index[-h:]; return predictions
PredictIsReturn(c, index) ==
    IF c.status # "ok" THEN [status |-> c.status, log |-> c.log]
    ELSE IF Len(index) # Len(c.predictions) THEN [status |-> "ValueError", log |-> c.log]
    ELSE [status |-> "ok", log |-> c.log, predictions |-> c.predictions, index |-> index]

\* predict_is(h, fit_once), h >= 1
predict_is(s, h, fit_once) ==
    PredictIsReturn(PredictIsLoop(s, [status |-> "ok", log |-> << >>, predictions |-> << >>,
                                      saved_lvs |-> [z_list |-> << >>, estimated |-> FALSE, fit_rows |-> 0]],
                                  0, h, fit_once),
                    PySlice(s.N, -h, s.N))

\* ------------------------------------------- the score update, in numbers
\* Exact rational arithmetic: a number is n/d with d > 0; d = 0 stands for the
\* result of a division by zero.
R(n, d) == [n |-> n, d |-> d]

One == R(1, 1)

RAdd(a, b) == R(a.n * b.d + b.n * a.d, a.d * b.d)

RSub(a, b) == R(a.n * b.d - b.n * a.d, a.d * b.d)

RMul(a, b) == R(a.n * b.n, a.d * b.d)

RDiv(a, b) == IF b.n >= 0 THEN R(a.n * b.d, a.d * b.n) ELSE R(-(a.n * b.d), -(a.d * b.n))

RLe(a, b) == a.n * b.d <= b.n * a.d

REq(a, b) == a.n * b.d = b.n * a.d

Finite(a) == a.d > 0

RECURSIVE Factorial(_)
Factorial(i) == IF i <= 0 THEN 1 ELSE i * Factorial(i - 1)

RECURSIVE IntPow(_, _)
IntPow(b, i) == IF i <= 0 THEN 1 ELSE b * IntPow(b, i - 1)

RECURSIVE ExpSeries(_, _)
\* sum of l^i * ExpTerms!/i! for i = 0..j
ExpSeries(l, j) ==
    IF j < 0 THEN 0 ELSE IntPow(l, j) * (Factorial(ExpTerms) \div Factorial(j)) + ExpSeries(l, j - 1)

\* np.exp(l) for an integer l: the Taylor polynomial of degree ExpTerms for
\* l >= 0, its reciprocal at -l for l < 0
Exp(l) ==
    IF l >= 0 THEN R(ExpSeries(l, ExpTerms), Factorial(ExpTerms))
    ELSE R(Factorial(ExpTerms), ExpSeries(-l, ExpTerms))

\* np.power(x, 2)
Power2(x) == RMul(x, x)

\* the score without the squared residual in its denominator
Score_no_residual(df, Y, theta, lmda) ==
    RSub(RDiv(RMul(RAdd(df, One), Power2(RSub(Y, theta))),
              RMul(df, Exp(lmda))),
         One)

\* ((df+1.0)*np.power(Y-theta,2))/float(df*np.exp(lmda) + np.power(Y-theta,2)) - 1.0
Score(df, Y, theta, lmda) ==
    RSub(RDiv(RMul(RAdd(df, One), Power2(RSub(Y, theta))),
              RAdd(RMul(df, Exp(lmda)), Power2(RSub(Y, theta)))),
         One)

\* ----------------------------------------------------------- actions
NoCall == [op |-> "none"]

NoFilter == [set |-> FALSE]

Init ==
    /\ \E p \in 0..MaxP, q \in 0..MaxQ, k \in 1..MaxK :
         \E n \in (Max(p, q) + 1)..MaxN : self = __init__(p, q, k, n)
    /\ f = NoFilter
    /\ ret = NoCall
    /\ rng = 0

AddLeverage ==
    /\ self' = add_leverage(self)
    /\ ret' = [op |-> "add_leverage"]
    /\ UNCHANGED <<f, rng>>

Fit ==
    /\ self' = fit(self)
    /\ ret' = [op |-> "fit"]
    /\ UNCHANGED <<f, rng>>

\* a caller runs the filter and keeps its arrays
Keep(m) ==
    /\ ret' = [op |-> "_model"] @@ m
    /\ f' = IF m.status = "ok" THEN [set |-> TRUE, lmda |-> m.lmda, Y |-> m.Y, scores |-> m.scores] ELSE f

Model ==
    /\ Keep(_model(self, self.z_no))
    /\ UNCHANGED <<self, rng>>

NegLoglik ==
    /\ ret' = [op |-> "neg_loglik"] @@ neg_loglik(self, self.z_no)
    /\ UNCHANGED <<self, f, rng>>

\* a caller forecasts h steps from the arrays it kept, with the MaxH >= h rows of X_oos
Forecast(h, r) ==
    /\ ret' = [op |-> "_mean_prediction", h |-> h, lmda0 |-> f.lmda, Y0 |-> f.Y, scores0 |-> f.scores] @@ r
    /\ f' = [f EXCEPT !.lmda = r.lmda, !.Y = r.Y, !.scores = r.scores]

MeanPrediction ==
    /\ f.set
    /\ \E h \in 0..MaxH :
         Forecast(h, _mean_prediction(self, f.lmda, f.Y, f.scores, h, Len(self.latent_variables.z_list), MaxH))
    /\ UNCHANGED <<self, rng>>

\* a caller simulates h >= 1 steps from the arrays it kept, with the MaxH >= h rows of X_oos
Simulated(h, simulations, r) ==
    /\ ret' = [op |-> "_sim_prediction", h |-> h, simulations |-> simulations] @@ r
    /\ rng' = r.rng

SimPrediction ==
    /\ f.set
    /\ \E h \in 1..MaxH : \E simulations \in 1..MaxSims :
         Simulated(h, simulations,
                   _sim_prediction(self, f.lmda, f.Y, f.scores, h, Len(self.latent_variables.z_list),
                                   simulations, MaxH, rng))
    /\ UNCHANGED <<self, f>>

\* predict and plot_predict are given MaxH >= h rows of out-of-sample data
Predict ==
    /\ \E h \in 1..MaxH :
         ret' = [h |-> h] @@ predict(self, h, MaxH)
    /\ UNCHANGED <<self, f, rng>>

PlotFit ==
    /\ ret' = plot_fit(self)
    /\ UNCHANGED <<self, f, rng>>

Plotted(h, r) ==
    /\ ret' = [h |-> h] @@ r
    /\ rng' = r.rng

PlotPredict ==
    /\ \E h \in 1..MaxH : Plotted(h, plot_predict(self, h, MaxH, MaxSims, rng))
    /\ UNCHANGED <<self, f>>

\* predict_is over the last h of the N rows, every window non-empty
PredictIs ==
    /\ \E h \in 1..MaxH : \E fit_once \in BOOLEAN :
         /\ h < self.N
         /\ ret' = [op |-> "predict_is", h |-> h, fit_once |-> fit_once] @@ predict_is(self, h, fit_once)
    /\ UNCHANGED <<self, f, rng>>

Next ==
    \/ AddLeverage
    \/ Fit
    \/ Model
    \/ NegLoglik
    \/ MeanPrediction
    \/ SimPrediction
    \/ Predict
    \/ PlotFit
    \/ PlotPredict
    \/ PredictIs

\* the score update applied to a row with degrees of freedom df > 0, log-volatility
\* lmda, observation Y and conditional mean theta
InitScore ==
    /\ self = __init__(0, 0, 1, 1)
    /\ f = NoFilter
    /\ ret = NoCall
    /\ rng = 0

ScoreUpdate ==
    /\ \E dn \in 1..MaxDf, dd \in 1..2, lmda \in (-MaxLmda)..MaxLmda,
          Y \in (-MaxAbs)..MaxAbs, theta \in (-MaxAbs)..MaxAbs :
         ret' = [op |-> "score", df |-> R(dn, dd), lmda |-> lmda, Y |-> Y, theta |-> theta,
                 score |-> Score(R(dn, dd), R(Y, 1), R(theta, 1), lmda)]
    /\ UNCHANGED <<self, f, rng>>

NextScore == ScoreUpdate

SpecScore == InitScore /\ [][NextScore]_vars

Spec == Init /\ [][Next]_vars

\* the model seen by a caller of the filter and the likelihood
NextFilter ==
    \/ AddLeverage
    \/ Fit
    \/ Model
    \/ NegLoglik

SpecFilter == Init /\ [][NextFilter]_vars

\* the model seen by a caller of the two forecast functions
NextForecast ==
    \/ AddLeverage
    \/ Fit
    \/ Model
    \/ MeanPrediction
    \/ SimPrediction

SpecForecast == Init /\ [][NextForecast]_vars

\* the model seen by a caller of the reporting methods
NextReport ==
    \/ AddLeverage
    \/ Fit
    \/ Predict
    \/ PlotFit
    \/ PlotPredict
    \/ PredictIs

SpecReport == Init /\ [][NextReport]_vars

\* ================================================================ claims
ZList == self.latent_variables.z_list

\* the last n entries of a sequence
Tail2(z, n) == SubSeq(z, Len(z) - n + 1, Len(z))

\* C1: after add_leverage() on a freshly constructed model with k >= 1 columns,
\* the last 2k latent variables are still the k volatility-regression
\* coefficients followed by the k mean-regression coefficients, in their
\* original order.
C1_TrailingBlockKept ==
    self.leverage =>
        Tail2(ZList, 2 * self.k) = Tail2(_create_latent_variables(self.p, self.q, self.k), 2 * self.k)

\* C2: the degrees of freedom used by the filter's score update and by
\* neg_loglik come from the same slot: index p+q without leverage, index p+q+1
\* with leverage (index p+q then holding the leverage coefficient), and the
\* slot is the latent variable with the exponential transform.
C2_SameDfSlot ==
    (ret.op = "neg_loglik" /\ ret.status = "ok") =>
        /\ \A t \in 1..Len(ret.scores) : ret.scores[t].df = ret.df.b
        /\ ret.df.b = (IF self.leverage THEN self.p + self.q + 1 ELSE self.p + self.q)
        /\ ret.df.tr = "exp"
        /\ At(ZList, ret.df.b).name = "v"
        /\ self.leverage => At(ZList, self.p + self.q).name = "Leverage Term"

\* C3: with leverage enabled, for h >= 1 and simulations >= 1 the simulation
\* completes and returns an h x simulations matrix, and at every step t of every
\* path n the leverage term reads that path's previous theta (step t-1, the last
\* in-sample value before the first step), never an unbound local or another
\* path's value.
C3_SimLeverageOwnPath ==
    (ret.op = "_sim_prediction" /\ self.leverage) =>
        /\ ret.status = "ok"
        /\ Len(ret.matrix) = ret.h
        /\ \A t \in 1..ret.h :
             /\ Len(ret.matrix[t]) = ret.simulations
             /\ \A n \in 1..ret.simulations :
                  LET lev == ret.matrix[t][n].lev
                  IN  /\ Len(lev) = 1
                      /\ lev[1].theta.bound
                      /\ lev[1].theta.path = n - 1
                      /\ lev[1].theta.step = t - 2

\* C4: for every index t of the filter's output, the covariate row used for
\* lmda[t] and theta[t] is the row of the observation Y[t], row t + max_lag of
\* the full covariate matrix.
C4_CovariateRowAligned ==
    (ret.op = "_model" /\ ret.status = "ok") =>
        \A t \in 1..Len(ret.Y) :
            /\ ret.theta[t].x = ret.Y[t].row
            /\ ret.lmda[t].k = "rec" => ret.lmda[t].x = ret.Y[t].row

\* C5: add_leverage() is idempotent and one-way: a first call sets the flag and
\* raises z_no and the number of latent variables by one, a further call changes
\* nothing, and z_no is the length of the latent-variable list throughout.
C5_AddLeverageIdempotent ==
    /\ self.z_no = Len(ZList)
    /\ [][ /\ self'.z_no = Len(self'.latent_variables.z_list)
           /\ self.leverage => self'.leverage
           /\ ret'.op = "add_leverage" =>
                /\ self'.leverage
                /\ IF self.leverage THEN self' = self
                   ELSE /\ self'.z_no = self.z_no + 1
                        /\ Len(self'.latent_variables.z_list) = Len(ZList) + 1 ]_vars

C5_Witness ==
    /\ ret.op = "add_leverage"
    /\ self.leverage
    /\ self.z_no = self.p + self.q + 3 + 2 * self.k
    /\ self.p >= 1 /\ self.q >= 1

\* C6: for N > max(p,q) the four arrays the filter returns all have length
\* N - max(p,q), and Y is the observation series without its first max(p,q)
\* entries.
C6_FilterLengths ==
    (ret.op = "_model") =>
        /\ ret.status = "ok"
        /\ Len(ret.lmda) = self.N - Max(self.p, self.q)
        /\ Len(ret.Y) = self.N - Max(self.p, self.q)
        /\ Len(ret.scores) = self.N - Max(self.p, self.q)
        /\ Len(ret.theta) = self.N - Max(self.p, self.q)
        /\ \A t \in 1..Len(ret.Y) : ret.Y[t] = [k |-> "obs", row |-> Max(self.p, self.q) + t - 1]
        /\ \A t \in 1..Len(ret.Y) : ret.lmda[t] # Zero /\ ret.scores[t] # Zero /\ ret.theta[t] # Zero

C6_Witness ==
    /\ ret.op = "_model"
    /\ self.leverage
    /\ self.p = 1 /\ self.q = 2
    /\ Len(ret.Y) = 2

\* what C7 says of a call of the deterministic forecast
MeanPredictionContract ==
    /\ ret.status = "ok"
    /\ Len(ret.path) = Len(ret.lmda0) + ret.h
    /\ SubSeq(ret.path, 1, Len(ret.lmda0)) = ret.lmda0
    /\ \A t \in 1..ret.h : ret.path[Len(ret.lmda0) + t].k = "new" /\ ret.path[Len(ret.lmda0) + t].xoos = t - 1
    /\ ret.scores_exp = ret.scores0 \o [t \in 1..ret.h |-> Zero]
    /\ f.lmda = ret.lmda0 /\ f.Y = ret.Y0 /\ f.scores = ret.scores0

PredictIsContract ==
    /\ ret.status = "ok"
    /\ Len(ret.log) = ret.h
    /\ \A j \in 1..ret.h :
         /\ ret.log[j].t = j - 1
         /\ ret.log[j].rows = self.N - ret.h + (j - 1)
         /\ ret.log[j].predict = "ok"
         /\ IF ret.fit_once
            THEN ret.log[j].fits = (IF j = 1 THEN 1 ELSE 0) /\ ret.log[j].fit_rows = self.N - ret.h
            ELSE ret.log[j].fits = 1 /\ ret.log[j].fit_rows = ret.log[j].rows
    /\ Len(ret.predictions) = ret.h
    /\ ret.index = [j \in 1..ret.h |-> self.N - ret.h + j - 1]

\* C9 as stated: for h >= 1 predict_is runs iterations t = 0..h-1, iteration t on
\* the first N - h + t rows with one one-step forecast; with fit_once the fit runs
\* once, at t = 0, and later iterations forecast with its latent variables,
\* otherwise the fit runs once per iteration; the result has h rows indexed by
\* the last h dates.
C9_AnyWindow == (ret.op = "predict_is") => PredictIsContract

\* C9 amended: the same, when the shortest window leaves the filter at least
\* max(p,q) rows to forecast from: N - h >= 2*max(p,q), with 1 <= h < N.
C9_PredictIs ==
    (ret.op = "predict_is" /\ self.N - ret.h >= 2 * Max(self.p, self.q)) => PredictIsContract

C9_Witness ==
    /\ ret.op = "predict_is"
    /\ ret.h = 2
    /\ ret.fit_once
    /\ self.p = 1
    /\ ret.status = "ok"

\* C10: while the latent variables are not estimated, predict, plot_predict and
\* plot_fit raise at once, before the filter runs or any out-of-sample data is
\* read, and leave the model as it was.
C10_NotEstimatedRaises ==
    [][ (ret'.op \in {"predict", "plot_predict", "plot_fit"} /\ ~self.latent_variables.estimated) =>
            /\ ret'.status = "Exception"
            /\ ret'.calls = << >>
            /\ self' = self /\ f' = f /\ rng' = rng ]_vars

C10_Witness ==
    /\ ret.op = "plot_predict"
    /\ ret.status = "Exception"
    /\ self.leverage
    /\ ~self.latent_variables.estimated

PastRead(r, t) ==
    /\ r.at = r.ix
    /\ r.at >= 0
    /\ r.at >= t - self.max_lag /\ r.at <= t - 1
    /\ r.rd # "zero"

\* what C11 says of row t of the filter's output
RowAsDescribed(t) ==
    IF t < self.max_lag
    THEN /\ ret.lmda[t + 1].k = "init"
         /\ ret.lmda[t + 1] = ret.lmda[1]
         /\ ret.theta[t + 1].k = "dot"
    ELSE /\ ret.lmda[t + 1].k = "rec"
         /\ ret.theta[t + 1].k = "dotgim"
         /\ \A j \in 1..Len(ret.lmda[t + 1].garch) : PastRead(ret.lmda[t + 1].garch[j], t)
         /\ \A j \in 1..Len(ret.lmda[t + 1].score) : PastRead(ret.lmda[t + 1].score[j], t)
         /\ \A j \in 1..Len(ret.lmda[t + 1].lev) :
              /\ PastRead(ret.lmda[t + 1].lev[j].score, t)
              /\ PastRead(ret.lmda[t + 1].lev[j].theta, t)
              /\ ret.lmda[t + 1].lev[j].y >= 0

\* C11: in the filter every row t < max_lag takes lmda[t] and theta[t] from the
\* initialization formula alone (the same lmda on every such row), and every
\* row t >= max_lag is computed by the recursion reading only cells at indices
\* t-1 down to t-max_lag, all >= 0 and already computed; no row reads an index
\* that wraps around to the end of the array.
C11_FilterRows ==
    (ret.op = "_model" /\ ret.status = "ok") =>
        \A t \in 0..(Len(ret.Y) - 1) : RowAsDescribed(t)

\* the same, for the models in which the recursion has a past to read
\* (max_lag >= 1) or no leverage term
C11_WithPast ==
    (ret.op = "_model" /\ ret.status = "ok" /\ (self.max_lag >= 1 \/ ~self.leverage)) =>
        \A t \in 0..(Len(ret.Y) - 1) : RowAsDescribed(t)

====
